---- MODULE Spec2Model ----
(***************************************************************************)
(* Expense tracker (src/script.js): a ledger kept in the global array      *)
(* `transactions`, persisted as JSON under one localStorage key and        *)
(* re-rendered in full after every mutation.                               *)
(*                                                                         *)
(* Texts (field values, ids, formatted figures) are sequences of           *)
(* one-character strings, so that trim, parseFloat, toString and           *)
(* formatCurrency are computed character by character.  Numbers are the    *)
(* JavaScript number values the program can meet here: an integer, NaN,    *)
(* +/-Infinity, and null after a JSON round trip.  The amount alphabet     *)
(* has no "." and no exponent, so every finite amount is an integer and    *)
(* is exact in double precision; localStorage writes are assumed to        *)
(* succeed (no quota error).                                               *)
(***************************************************************************)
EXTENDS Integers, Sequences, FiniteSets

\* ------------------------------------------------------------------ bounds
MaxLedger == 2      \* most entries the ledger holds in the model
MaxTimers == 2      \* most hide timers pending at once
MaxTicks == 1       \* milliseconds the model lets pass
T0 == 9             \* Date.now() when the page is first opened

\* ------------------------------------------------------- JavaScript values
Num(n) == [t |-> "num", v |-> n]
NaN == [t |-> "nan", v |-> 0]
Inf(sgn) == [t |-> "inf", v |-> sgn]
Null == [t |-> "null", v |-> 0]

\* ToNumber of the values above, as the relational operators apply it:
\* null converts to 0, NaN compares false with everything.
JsGt0(x) == (x.t \in {"num", "inf"}) /\ x.v > 0
JsLt0(x) == (x.t \in {"num", "inf"}) /\ x.v < 0
JsIsNaN(x) == x.t = "nan"
JsIsZero(x) == x.t = "num" /\ x.v = 0      \* x === 0 (true of -0 as well)

\* a + b on numbers
JsAdd(a, b) ==
    IF a.t = "nan" \/ b.t = "nan" THEN NaN
    ELSE IF a.t = "inf" /\ b.t = "inf" THEN (IF a.v = b.v THEN a ELSE NaN)
    ELSE IF a.t = "inf" THEN a
    ELSE IF b.t = "inf" THEN b
    ELSE Num(a.v + b.v)

\* Math.abs(x); Math.abs(null) is 0
JsAbs(x) ==
    IF x.t = "num" THEN Num(IF x.v < 0 THEN -x.v ELSE x.v)
    ELSE IF x.t = "inf" THEN Inf(1)
    ELSE IF x.t = "null" THEN Num(0)
    ELSE NaN

\* ------------------------------------------------------------------- texts
Digits == <<"0", "1", "2", "3", "4", "5", "6", "7", "8", "9">>
IsDigit(c) == \E i \in 1..10 : Digits[i] = c
DigitVal(c) == (CHOOSE i \in 1..10 : Digits[i] = c) - 1
IsWhite(c) == c = " "

RECURSIVE DropWhite(_)
DropWhite(s) == IF s # <<>> /\ IsWhite(Head(s)) THEN DropWhite(Tail(s)) ELSE s

RECURSIVE DropWhiteEnd(_)
DropWhiteEnd(s) ==
    IF s # <<>> /\ IsWhite(s[Len(s)]) THEN DropWhiteEnd(SubSeq(s, 1, Len(s) - 1)) ELSE s

\* trimStart in place of trim
TrimStartOnly(s) == DropWhite(s)

\* String.prototype.trim
Trim(s) == DropWhiteEnd(DropWhite(s))

\* Number.prototype.toString of a non-negative integer: its decimal digits
RECURSIVE toString(_)
toString(n) ==
    IF n < 10 THEN <<Digits[n + 1]>> ELSE Append(toString(n \div 10), Digits[(n % 10) + 1])

\* the longest prefix of s made of decimal digits
RECURSIVE DigitPrefix(_)
DigitPrefix(s) ==
    IF s # <<>> /\ IsDigit(Head(s)) THEN <<Head(s)>> \o DigitPrefix(Tail(s)) ELSE <<>>

RECURSIVE DigitsValue(_)
DigitsValue(ds) ==
    IF ds = <<>> THEN 0 ELSE 10 * DigitsValue(SubSeq(ds, 1, Len(ds) - 1)) + DigitVal(ds[Len(ds)])

InfinityText == <<"I", "n", "f", "i", "n", "i", "t", "y">>
StartsWith(s, p) == Len(s) >= Len(p) /\ SubSeq(s, 1, Len(p)) = p

\* parseFloat: leading white space is skipped, then an optional sign, then
\* "Infinity" or the longest run of digits; what follows is ignored, and no
\* digits at all give NaN.
ParseFloat(s) ==
    LET t == DropWhite(s)
        neg == t # <<>> /\ Head(t) = "-"
        signed == t # <<>> /\ Head(t) \in {"-", "+"}
        body == IF signed THEN Tail(t) ELSE t
        ds == DigitPrefix(body)
    IN  IF StartsWith(body, InfinityText) THEN Inf(IF neg THEN -1 ELSE 1)
        ELSE IF ds = <<>> THEN NaN
        ELSE Num(IF neg THEN -DigitsValue(ds) ELSE DigitsValue(ds))

\* en-IN grouping of an integer's digits: the last three, then pairs
RECURSIVE GroupPairs(_)
GroupPairs(ds) ==
    IF Len(ds) <= 2 THEN ds
    ELSE GroupPairs(SubSeq(ds, 1, Len(ds) - 2)) \o <<",">> \o SubSeq(ds, Len(ds) - 1, Len(ds))

GroupIndian(ds) ==
    IF Len(ds) <= 3 THEN ds
    ELSE GroupPairs(SubSeq(ds, 1, Len(ds) - 3)) \o <<",">> \o SubSeq(ds, Len(ds) - 2, Len(ds))

Rupee == "Rs"   \* stands for the one character U+20B9

\* Intl.NumberFormat('en-IN', {style: 'currency', currency: 'INR'}).format
formatCurrency(num) ==
    IF num.t = "num"
    THEN (IF num.v < 0 THEN <<"-">> ELSE <<>>) \o <<Rupee>>
         \o GroupIndian(toString(IF num.v < 0 THEN -num.v ELSE num.v)) \o <<".", "0", "0">>
    ELSE IF num.t = "inf"
    THEN (IF num.v < 0 THEN <<"-">> ELSE <<>>) \o <<Rupee, "Inf">>
    ELSE IF num.t = "null" THEN <<Rupee, "0", ".", "0", "0">>
    ELSE <<Rupee, "NaN">>

\* -------------------------------------------------------------------- JSON
\* A stored blob is absent (getItem gives null), the empty string, text that
\* is not JSON, or a JSON document: an array of objects, or some other JSON
\* value (an object), which has none of the array methods.
NoDoc == [type |-> "none", items |-> <<>>]
Absent == [kind |-> "absent", doc |-> NoDoc]
EmptyText == [kind |-> "empty", doc |-> NoDoc]
Garbage == [kind |-> "garbage", doc |-> NoDoc]
ObjectDoc == [type |-> "object", items |-> <<>>]
ObjectBlob == [kind |-> "json", doc |-> ObjectDoc]

EmptyArray == [type |-> "array", items |-> <<>>]
ObjectValue == [type |-> "object", items |-> <<>>]

\* JSON text of a number: a finite number is written in full, NaN and the
\* infinities are written as null.
JsonOfNumber(x) == IF x.t = "num" THEN [t |-> "number", v |-> x.v] ELSE [t |-> "null", v |-> 0]
NumberOfJson(j) == IF j.t = "number" THEN Num(j.v) ELSE Null

JSONstringify(value) ==
    [type |-> "array",
     items |-> [i \in 1..Len(value.items) |->
                  [id |-> value.items[i].id,
                   description |-> value.items[i].description,
                   amount |-> JsonOfNumber(value.items[i].amount),
                   timestamp |-> value.items[i].timestamp]]]

JSONparse(doc) ==
    IF doc.type = "array"
    THEN [type |-> "array",
          items |-> [i \in 1..Len(doc.items) |->
                       [id |-> doc.items[i].id,
                        description |-> doc.items[i].description,
                        amount |-> NumberOfJson(doc.items[i].amount),
                        timestamp |-> doc.items[i].timestamp]]]
    ELSE ObjectValue

\* ----------------------------------------------------- the program's state
\* The functions of script.js are operators from program state to program
\* state; `threw` records an uncaught exception, after which the rest of
\* the running handler is skipped.
Throw(s) == [s EXCEPT !.threw = TRUE]

\* a showMessage that clears the hide timers set before it sets its own
showMessageCancelling(s, message, type) ==
    [s EXCEPT !.messageBox = [textContent |-> message, type |-> type, hidden |-> FALSE],
              !.timers = 1]

\* a showMessage that sets no hide timer
showMessageUntimed(s, message, type) ==
    [s EXCEPT !.messageBox = [textContent |-> message, type |-> type, hidden |-> FALSE]]

showMessage(s, message, type) ==
    [s EXCEPT !.messageBox = [textContent |-> message, type |-> type, hidden |-> FALSE],
              !.timers = @ + 1]

\* init without its reload: the array in memory is kept as it is
loadTransactionsSkipped(s) == s

\* a load that reports a missing blob the way it reports a corrupt one
loadTransactionsNotifying(s) ==
    LET savedTransactions == s.localStorage
    IN  IF s.threw THEN s
        ELSE IF savedTransactions.kind \in {"absent", "empty", "garbage"}
        THEN showMessage([s EXCEPT !.transactions = EmptyArray],
                         "Error loading data. Data reset.", "error")
        ELSE [s EXCEPT !.transactions = JSONparse(savedTransactions.doc)]

loadTransactions(s) ==
    LET savedTransactions == s.localStorage
    IN  IF s.threw THEN s
        ELSE IF savedTransactions.kind \in {"absent", "empty"} THEN s
        ELSE IF savedTransactions.kind = "garbage"
        THEN showMessage([s EXCEPT !.transactions = EmptyArray],
                         "Error loading data. Data reset.", "error")
        ELSE [s EXCEPT !.transactions = JSONparse(savedTransactions.doc)]

saveTransactions(s) ==
    IF s.threw THEN s
    ELSE [s EXCEPT !.localStorage = [kind |-> "json", doc |-> JSONstringify(s.transactions)],
                   !.saved = TRUE, !.atSave = s.transactions]

\* amounts.filter(keep).reduce((acc, item) => acc += item, 0)
RECURSIVE SumWhere(_, _)
SumWhere(items, positive) ==
    IF items = <<>> THEN Num(0)
    ELSE LET rest == SumWhere(SubSeq(items, 1, Len(items) - 1), positive)
             item == items[Len(items)].amount
         IN  IF (positive /\ JsGt0(item)) \/ (~positive /\ JsLt0(item))
             THEN JsAdd(rest, item) ELSE rest

totalIncome(items) == SumWhere(items, TRUE)

\* the expense total taken over the wrong side of zero
totalExpenseOfIncome(items) == SumWhere(items, TRUE)

totalExpense(items) == SumWhere(items, FALSE)
netBalance(items) == JsAdd(totalIncome(items), totalExpense(items))

\* updateSummary showing the expense total without Math.abs
updateSummarySigned(s) ==
    IF s.threw THEN s
    ELSE IF s.transactions.type # "array" THEN Throw(s)
    ELSE LET items == s.transactions.items
         IN  [s EXCEPT !.balanceDisplay = formatCurrency(netBalance(items)),
                       !.incomeDisplay = formatCurrency(totalIncome(items)),
                       !.expenseDisplay = formatCurrency(totalExpense(items))]

updateSummary(s) ==
    IF s.threw THEN s
    ELSE IF s.transactions.type # "array" THEN Throw(s)    \* transactions.map is not a function
    ELSE LET items == s.transactions.items
         IN  [s EXCEPT !.balanceDisplay = formatCurrency(netBalance(items)),
                       !.incomeDisplay = formatCurrency(totalIncome(items)),
                       !.expenseDisplay = formatCurrency(JsAbs(totalExpense(items)))]

Placeholder == [kind |-> "placeholder", description |-> <<>>, sign |-> "", amount |-> <<>>, dataId |-> <<>>]

\* the <li> of one transaction, put in front of the rows already there
addTransactionToDOM(list, transaction) ==
    LET isIncome == JsGt0(transaction.amount)
        listItem == [kind |-> "row",
                     description |-> transaction.description,
                     sign |-> IF isIncome THEN "+" ELSE "-",
                     amount |-> formatCurrency(JsAbs(transaction.amount)),
                     dataId |-> transaction.id]
    IN  <<listItem>> \o list

\* Array.prototype.sort((a, b) => b.timestamp - a.timestamp): stable, so an
\* entry goes behind the entries already placed that are as new or newer.
RECURSIVE InsertByTimestamp(_, _)
InsertByTimestamp(sorted, x) ==
    IF sorted = <<>> THEN <<x>>
    ELSE IF x.timestamp - Head(sorted).timestamp > 0 THEN <<x>> \o sorted
    ELSE <<Head(sorted)>> \o InsertByTimestamp(Tail(sorted), x)

RECURSIVE SortNewestFirst(_)
SortNewestFirst(items) ==
    IF items = <<>> THEN <<>>
    ELSE InsertByTimestamp(SortNewestFirst(SubSeq(items, 1, Len(items) - 1)), items[Len(items)])

\* transactions.forEach(addTransactionToDOM)
RECURSIVE ForEachAdd(_, _)
ForEachAdd(list, items) ==
    IF items = <<>> THEN list
    ELSE ForEachAdd(addTransactionToDOM(list, Head(items)), Tail(items))

\* a render that leaves the rows of the last render in the list
renderTransactionsAppending(s) ==
    IF s.threw THEN s
    ELSE IF s.transactions.type # "array" THEN Throw(s)
    ELSE IF Len(s.transactions.items) = 0
    THEN [s EXCEPT !.transactionList = <<Placeholder>> \o @]
    ELSE LET sorted == SortNewestFirst(s.transactions.items)
         IN  [s EXCEPT !.transactions = [type |-> "array", items |-> sorted],
                       !.transactionList = ForEachAdd(@, sorted)]

renderTransactions(s) ==
    IF s.threw THEN s
    ELSE IF s.transactions.type # "array"
    THEN Throw([s EXCEPT !.transactionList = <<>>])   \* transactions.sort is not a function
    ELSE IF Len(s.transactions.items) = 0
    THEN [s EXCEPT !.transactionList = <<Placeholder>>]
    ELSE LET sorted == SortNewestFirst(s.transactions.items)
         IN  [s EXCEPT !.transactions = [type |-> "array", items |-> sorted],
                       !.transactionList = ForEachAdd(<<>>, sorted)]

init(s) == renderTransactions(updateSummary(loadTransactions(s)))

\* items.splice(items.findIndex(t => t.id === id), 1): only the first match
\* goes, and with no match (index -1) the last entry goes
RECURSIVE SpliceFirst(_, _)
SpliceFirst(items, id) ==
    IF items = <<>> THEN <<>>
    ELSE IF Head(items).id = id THEN Tail(items)
    ELSE IF Len(items) = 1 THEN <<>>
    ELSE <<Head(items)>> \o SpliceFirst(Tail(items), id)

\* only the first entry with the id is taken out
RECURSIVE FilterOutFirst(_, _)
FilterOutFirst(items, id) ==
    IF items = <<>> THEN <<>>
    ELSE IF Head(items).id = id THEN Tail(items)
    ELSE <<Head(items)>> \o FilterOutFirst(Tail(items), id)

\* transactions.filter(t => t.id !== id)
FilterOut(items, id) == SelectSeq(items, LAMBDA t : t.id # id)

deleteTransaction(s, id) ==
    IF s.transactions.type # "array" THEN Throw(s)    \* transactions.filter is not a function
    ELSE LET kept == FilterOut(s.transactions.items, id)
             removed == [s EXCEPT !.transactions = [type |-> "array", items |-> kept]]
             refreshed == init(saveTransactions(removed))
         IN  IF refreshed.threw THEN refreshed
             ELSE showMessage(refreshed, "Transaction deleted successfully!", "success")

\* the validation without its test for zero
RejectedButZero(description, amount) ==
    description = <<>> \/ JsIsNaN(amount)

\* the "basic validation" of handleFormSubmit: what it turns away
Rejected(description, amount) ==
    description = <<>> \/ JsIsNaN(amount) \/ JsIsZero(amount)

\* The handler is taken to run within one millisecond: its two Date.now()
\* reads give the same value.
handleFormSubmit(s) ==
    LET description == Trim(s.descriptionInput)
        amount == ParseFloat(s.amountInput)
    IN  IF Rejected(description, amount)
        THEN showMessage(s, "Please enter a valid description and a non-zero amount.", "error")
        ELSE LET newTransaction == [id |-> toString(s.now),
                                    description |-> description,
                                    amount |-> amount,
                                    timestamp |-> s.now]
             IN  IF s.transactions.type # "array"
                 THEN Throw(s)                        \* transactions.push is not a function
                 ELSE LET pushed == [s EXCEPT !.transactions.items = Append(@, newTransaction)]
                          refreshed == init(saveTransactions(pushed))
                      IN  IF refreshed.threw THEN refreshed
                          ELSE showMessage([refreshed EXCEPT !.descriptionInput = <<>>,
                                                             !.amountInput = <<>>],
                                           "Transaction added successfully!", "success")

\* a list click that deletes without looking at the answer of window.confirm
handleListClickUnasked(s, target, confirmed) ==
    IF target = 0 \/ s.transactionList[target].kind # "row" THEN s
    ELSE deleteTransaction(s, s.transactionList[target].dataId)

\* target 0 is a click outside every delete button, target i the button of
\* the i-th row of the list
handleListClick(s, target, confirmed) ==
    IF target = 0 \/ s.transactionList[target].kind # "row" THEN s
    ELSE LET idToDelete == s.transactionList[target].dataId
         IN  IF confirmed THEN deleteTransaction(s, idToDelete) ELSE s

\* ------------------------------------------------------------------- state
VARIABLES
    transactions,      \* the global array (or what JSON.parse returned)
    localStorage,      \* the blob under 'expenseTrackerTransactions'
    balanceDisplay, incomeDisplay, expenseDisplay,   \* textContent of the three figures
    transactionList,   \* the rows of #transaction-list, top first
    descriptionInput, amountInput,                   \* the values of the two fields
    messageBox,        \* text, kind and visibility of #message-box
    timers,            \* number of hide callbacks setTimeout holds, not yet run
    now,               \* Date.now()
    loaded,            \* window.onload has run: the listeners are attached
    last               \* the handler that ran last, its arguments and the state it started from

vars == <<transactions, localStorage, balanceDisplay, incomeDisplay, expenseDisplay,
          transactionList, descriptionInput, amountInput, messageBox, timers, now,
          loaded, last>>

\* the program state as the record the operators above work on
Current ==
    [transactions |-> transactions, localStorage |-> localStorage,
     balanceDisplay |-> balanceDisplay, incomeDisplay |-> incomeDisplay,
     expenseDisplay |-> expenseDisplay, transactionList |-> transactionList,
     descriptionInput |-> descriptionInput, amountInput |-> amountInput,
     messageBox |-> messageBox, timers |-> timers, now |-> now,
     threw |-> FALSE, saved |-> FALSE, atSave |-> EmptyArray]

Becomes(s) ==
    /\ transactions' = s.transactions
    /\ localStorage' = s.localStorage
    /\ balanceDisplay' = s.balanceDisplay
    /\ incomeDisplay' = s.incomeDisplay
    /\ expenseDisplay' = s.expenseDisplay
    /\ transactionList' = s.transactionList
    /\ descriptionInput' = s.descriptionInput
    /\ amountInput' = s.amountInput
    /\ messageBox' = s.messageBox
    /\ timers' = s.timers
    /\ now' = s.now

\* the page as the browser builds it, before window.onload: line 2 has run,
\* the markup's figures and list are empty and its message box is hidden,
\* no timer is pending
FreshPage(store, time) ==
    [transactions |-> EmptyArray, localStorage |-> store,
     balanceDisplay |-> <<>>, incomeDisplay |-> <<>>, expenseDisplay |-> <<>>,
     transactionList |-> <<>>, descriptionInput |-> <<>>, amountInput |-> <<>>,
     messageBox |-> [textContent |-> "", type |-> "", hidden |-> TRUE],
     timers |-> 0, now |-> time,
     threw |-> FALSE, saved |-> FALSE, atSave |-> EmptyArray]

\* what `last` keeps of a handler run: the call and its arguments, the
\* ledger and the blob it started from, the ledger it handed to saveTransactions
\* (if it saved), and whether it ended in an uncaught exception
Call(op, description, amount, id, confirmed, s) ==
    [op |-> op, description |-> description, amount |-> amount, id |-> id,
     confirmed |-> confirmed,
     transactions |-> transactions, localStorage |-> localStorage,
     saved |-> s.saved, atSave |-> s.atSave, threw |-> s.threw]

NoCall(op) ==
    [op |-> op, description |-> <<>>, amount |-> <<>>, id |-> <<>>,
     confirmed |-> FALSE,
     transactions |-> EmptyArray, localStorage |-> Absent,
     saved |-> FALSE, atSave |-> EmptyArray, threw |-> FALSE]

\* ------------------------------------------------------------------ inputs
InitialBlobs == {Absent, EmptyText, Garbage, ObjectBlob}

\* what the user types before submitting: <<description, amount>>.  The
\* first three pass the validation of handleFormSubmit; the others fail it:
\* both fields left empty, a description of white space only, an amount
\* that is no number, an amount of zero.
Described == <<" ", "a", " ", "b", " ">>
Submissions ==
    {<<Described, <<" ", "7", "x">>>>, <<Described, <<"-", "4", "0">>>>,
     <<Described, InfinityText>>,
     <<<<>>, <<>>>>, <<<<" ">>, <<"7">>>>, <<Described, <<"x">>>>, <<Described, <<"0">>>>}

\* ids deleteTransaction is called with directly
CalledIds == {toString(T0), toString(T0 + 1)}

LastTick == T0 + MaxTicks

Size(value) == IF value.type = "array" THEN Len(value.items) ELSE 0

Init ==
    \E store \in InitialBlobs :
        LET page == FreshPage(store, T0)
        IN  /\ transactions = page.transactions
            /\ localStorage = page.localStorage
            /\ balanceDisplay = page.balanceDisplay
            /\ incomeDisplay = page.incomeDisplay
            /\ expenseDisplay = page.expenseDisplay
            /\ transactionList = page.transactionList
            /\ descriptionInput = page.descriptionInput
            /\ amountInput = page.amountInput
            /\ messageBox = page.messageBox
            /\ timers = page.timers
            /\ now = page.now
            /\ loaded = FALSE
            /\ last = NoCall("none")

\* ----------------------------------------------------------------- actions
\* window.onload: the listeners are attached, then init() runs
Onload ==
    /\ ~loaded
    /\ LET s == init(Current)
       IN  /\ s.timers <= MaxTimers
           /\ Becomes(s)
           /\ last' = Call("onload", <<>>, <<>>, <<>>, FALSE, s)
    /\ loaded' = TRUE

\* the user fills in the two fields and submits the form
Submit ==
    /\ loaded
    /\ \E typing \in Submissions :
        LET description == typing[1]
            amount == typing[2]
            typed == [Current EXCEPT !.descriptionInput = description, !.amountInput = amount]
            s == handleFormSubmit(typed)
        IN  /\ s.timers <= MaxTimers
            /\ Size(s.transactions) <= MaxLedger
            /\ Becomes(s)
            /\ last' = Call("submit", description, amount, <<>>, FALSE, s)
    /\ UNCHANGED loaded

\* a click inside the list, answered by the confirm dialog if it asks
ListClick ==
    /\ loaded
    /\ \E target \in 0..Len(transactionList), confirmed \in BOOLEAN :
        LET s == handleListClick(Current, target, confirmed)
        IN  /\ s.timers <= MaxTimers
            /\ Becomes(s)
            /\ last' = Call("click", <<>>, <<>>,
                            IF target = 0 THEN <<>> ELSE transactionList[target].dataId,
                            confirmed, s)
    /\ UNCHANGED loaded

\* deleteTransaction called with an id of the caller's choosing
DeleteCall ==
    /\ loaded
    /\ \E id \in CalledIds :
        LET s == deleteTransaction(Current, id)
        IN  /\ s.timers <= MaxTimers
            /\ Becomes(s)
            /\ last' = Call("delete", <<>>, <<>>, id, TRUE, s)
    /\ UNCHANGED loaded

\* a pending setTimeout callback runs.  The delays are all the same, so
\* it is the oldest one; how long 3000 ms is against the user's actions is
\* left open.
HideTimer ==
    /\ timers > 0
    /\ messageBox' = [messageBox EXCEPT !.hidden = TRUE]
    /\ timers' = timers - 1
    /\ last' = NoCall("timer")
    /\ UNCHANGED <<transactions, localStorage, balanceDisplay, incomeDisplay, expenseDisplay,
                   transactionList, descriptionInput, amountInput, now, loaded>>

\* a millisecond passes
Tick ==
    /\ now + 1 <= LastTick
    /\ now' = now + 1
    /\ last' = NoCall("tick")
    /\ UNCHANGED <<transactions, localStorage, balanceDisplay, incomeDisplay, expenseDisplay,
                   transactionList, descriptionInput, amountInput, messageBox, timers, loaded>>

\* the page is loaded again: the script starts over with what is stored
Reload ==
    /\ loaded
    /\ Becomes(FreshPage(localStorage, now))
    /\ loaded' = FALSE
    /\ last' = NoCall("reload")

Next == Onload \/ Submit \/ ListClick \/ DeleteCall \/ HideTimer \/ Tick \/ Reload

Spec == Init /\ [][Next]_vars

\* The callback of a setTimeout that is pending is run by the event loop once
\* its delay is over, as long as the page lives.
FairSpec == Spec /\ WF_vars(HideTimer)

\* -------------------------------------------------------------- properties
IsLedger(value) == value.type = "array"

Count(x, items) == Cardinality({i \in 1..Len(items) : items[i] = x})

\* the same entries, each as often, in whatever order
SameEntries(a, b) ==
    /\ Len(a) = Len(b)
    /\ \A i \in 1..Len(a) : Count(a[i], a) = Count(a[i], b)

Without(items, i) == SubSeq(items, 1, i - 1) \o SubSeq(items, i + 1, Len(items))

HasId(items, id) == \E i \in 1..Len(items) : items[i].id = id

AllWhite(text) == \A i \in 1..Len(text) : text[i] = " "

\* x is text without the white space around it
IsTrimmed(x, text) ==
    /\ \E i \in 1..Len(text) + 1, j \in 0..Len(text) :
          /\ x = SubSeq(text, i, j)
          /\ \A k \in 1..Len(text) : (k < i \/ k > j) => text[k] = " "
    /\ x # <<>> => x[1] # " " /\ x[Len(x)] # " "

\* a submission the specification calls valid: a description that is not
\* blank and an amount that parses to a finite number other than zero
ValidSubmission(description, amount) ==
    /\ ~AllWhite(description)
    /\ ParseFloat(amount).t = "num"
    /\ ParseFloat(amount).v # 0

\* a submission that is invalid on one of the counts of the validation
\* rule: blank description, amount that is no number, amount zero
InvalidSubmission(description, amount) ==
    \/ AllWhite(description)
    \/ ParseFloat(amount) = NaN
    \/ ParseFloat(amount) = Num(0)

Submitted == last.op = "submit"
Deleted == last.op \in {"click", "delete"} /\ last.confirmed /\ last.id # <<>>

\* C1: a valid submission to a ledger leaves the ledger with the entries it
\* had plus exactly one new entry, whose description is the trimmed input
\* and whose amount is the parsed input.
C1_ValidSubmitAddsOneEntry ==
    (Submitted /\ IsLedger(last.transactions)
       /\ ValidSubmission(last.description, last.amount))
    => /\ IsLedger(transactions)
       /\ \E i \in 1..Len(transactions.items) :
             /\ IsTrimmed(transactions.items[i].description, last.description)
             /\ transactions.items[i].amount = ParseFloat(last.amount)
             /\ SameEntries(Without(transactions.items, i), last.transactions.items)

C1_Witness ==
    /\ Submitted /\ ValidSubmission(last.description, last.amount)
    /\ Len(last.transactions.items) = 1
    /\ Len(transactions.items) = 2
    /\ \E i \in 1..2 : /\ transactions.items[i].description = <<"a", " ", "b">>
                       /\ transactions.items[i].amount = Num(-40)
                       /\ last.transactions.items = <<transactions.items[3 - i]>>

\* C2: an invalid submission (blank description, amount that is no number,
\* amount zero) leaves the ledger in memory and the stored blob as they were.
C2_InvalidSubmitChangesNothing ==
    (Submitted /\ InvalidSubmission(last.description, last.amount))
    => /\ transactions = last.transactions
       /\ localStorage = last.localStorage

C2_Witness ==
    /\ Submitted /\ last.amount = <<"0">>
    /\ Len(transactions.items) = 1
    /\ localStorage.kind = "json"
    /\ messageBox.type = "error" /\ ~messageBox.hidden

\* C3: after a confirmed delete of an id the ledger holds, the ledger in
\* memory is the entries it had whose id is another, and the stored blob
\* holds those same entries.
C3_DeleteRemovesExactlyThatId ==
    (Deleted /\ IsLedger(last.transactions) /\ HasId(last.transactions.items, last.id))
    => /\ IsLedger(transactions)
       /\ SameEntries(transactions.items,
                      SelectSeq(last.transactions.items, LAMBDA t : t.id # last.id))
       /\ \A i \in 1..Len(transactions.items) : transactions.items[i].id # last.id
       /\ localStorage.kind = "json"
       /\ localStorage.doc.type = "array"
       /\ SameEntries(JSONparse(localStorage.doc).items, transactions.items)

C3_Witness ==
    /\ last.op = "click" /\ last.confirmed
    /\ Len(last.transactions.items) = 2
    /\ last.transactions.items[1].id = last.id
    /\ last.transactions.items[2].id # last.id
    /\ transactions.items = <<last.transactions.items[2]>>
    /\ Len(localStorage.doc.items) = 1

\* C4: deleteTransaction with an id the ledger does not hold leaves the
\* ledger with the same entries, and ends without an exception or an error
\* message.
C4_DeleteOfAbsentIdChangesNothing ==
    (last.op = "delete" /\ IsLedger(last.transactions)
       /\ ~HasId(last.transactions.items, last.id))
    => /\ IsLedger(transactions)
       /\ SameEntries(transactions.items, last.transactions.items)
       /\ ~last.threw
       /\ messageBox.type # "error"

C4_Witness ==
    /\ last.op = "delete" /\ ~HasId(last.transactions.items, last.id)
    /\ Len(last.transactions.items) = 2
    /\ transactions = last.transactions

\* C5: the ledger handed to saveTransactions comes back from
\* loadTransactions with the same entries (ids, descriptions, amounts and
\* timestamps).
C5_SaveLoadRoundTrip ==
    (last.saved /\ ~last.threw) => SameEntries(transactions.items, last.atSave.items)

\* the amount of an entry as a term of a sum: null counts as 0
Term(amount) == IF amount.t = "num" THEN amount.v ELSE 0

RECURSIVE SumAmounts(_)
SumAmounts(items) ==
    IF items = <<>> THEN 0 ELSE Term(Head(items).amount) + SumAmounts(Tail(items))

RECURSIVE SumPositive(_)
SumPositive(items) ==
    IF items = <<>> THEN 0
    ELSE (IF Term(Head(items).amount) > 0 THEN Term(Head(items).amount) ELSE 0)
         + SumPositive(Tail(items))

RECURSIVE SumNegative(_)
SumNegative(items) ==
    IF items = <<>> THEN 0
    ELSE (IF Term(Head(items).amount) < 0 THEN Term(Head(items).amount) ELSE 0)
         + SumNegative(Tail(items))

\* C6: for every ledger the program reaches, the aggregates updateSummary
\* computes satisfy income >= 0, expense <= 0 and
\* balance = income + expense = the sum of all amounts.
C6_AggregateInvariant ==
    IsLedger(transactions)
    => LET items == transactions.items
           income == totalIncome(items)
           expense == totalExpense(items)
           balance == netBalance(items)
       IN  /\ income.t = "num" /\ expense.t = "num" /\ balance.t = "num"
           /\ income.v >= 0
           /\ expense.v <= 0
           /\ balance.v = income.v + expense.v
           /\ balance.v = SumAmounts(items)

C6_Witness ==
    /\ IsLedger(transactions)
    /\ Len(transactions.items) = 2
    /\ totalIncome(transactions.items) = Num(7)
    /\ totalExpense(transactions.items) = Num(-40)
    /\ netBalance(transactions.items) = Num(-33)

\* C7: the rendered list is newest first: of two ledger entries with
\* timestamps t1 < t2, the row of the one with t2 is above the row of the
\* one with t1.
C7_NewestShownFirst ==
    IsLedger(transactions)
    => \A i, j \in 1..Len(transactionList) :
          \A a, b \in 1..Len(transactions.items) :
             (/\ i < j
              /\ transactionList[i].kind = "row" /\ transactionList[j].kind = "row"
              /\ transactionList[i].dataId = transactions.items[a].id
              /\ transactionList[j].dataId = transactions.items[b].id)
             => transactions.items[a].timestamp >= transactions.items[b].timestamp

\* C8: no two entries of the ledger have the same id, whatever submissions
\* and deletions led to it.
C8_IdsUnique ==
    IsLedger(transactions)
    => \A i, j \in 1..Len(transactions.items) :
          i # j => transactions.items[i].id # transactions.items[j].id

\* a blob that is there but is not a stored ledger
CorruptBlob(blob) ==
    \/ blob.kind \in {"garbage", "empty"}
    \/ blob.kind = "json" /\ blob.doc.type # "array"

\* C9: startup on a blob that is present but is not an array of
\* transactions ends, without an uncaught exception, in an empty ledger
\* and a visible error notice.
C9_CorruptBlobGivesEmptyLedgerAndNotice ==
    (last.op = "onload" /\ CorruptBlob(last.localStorage))
    => /\ ~last.threw
       /\ transactions = EmptyArray
       /\ messageBox.type = "error" /\ ~messageBox.hidden

\* a handler has just run init() to its end
Refreshed ==
    /\ last.op \in {"onload", "submit", "click", "delete"}
    /\ ~last.threw
    /\ last.op = "onload" \/ last.saved

\* C10: after a completed startup, a successful submit or a confirmed
\* delete, the three figures shown are those of the ledger in memory:
\* income the sum of the positive amounts, expense the absolute value of
\* the sum of the negative amounts, balance the sum of all amounts.
C10_FiguresShownMatchLedger ==
    Refreshed
    => /\ IsLedger(transactions)
       /\ incomeDisplay = formatCurrency(Num(SumPositive(transactions.items)))
       /\ expenseDisplay = formatCurrency(Num(-SumNegative(transactions.items)))
       /\ balanceDisplay = formatCurrency(Num(SumAmounts(transactions.items)))

C10_Witness ==
    /\ Refreshed /\ Submitted
    /\ Len(transactions.items) = 2
    /\ incomeDisplay = <<Rupee, "7", ".", "0", "0">>
    /\ expenseDisplay = <<Rupee, "4", "0", ".", "0", "0">>
    /\ balanceDisplay = <<"-", Rupee, "3", "3", ".", "0", "0">>

\* a handler has just changed the ledger: a submit that was accepted, or a
\* confirmed delete, run to its end
Mutated ==
    /\ last.op \in {"submit", "click", "delete"}
    /\ last.saved
    /\ ~last.threw

\* an entry of the ledger as the blob holds it, field by field; a blob has
\* numbers and null only
StoredForm(entry) ==
    [id |-> entry.id, description |-> entry.description,
     amount |-> IF entry.amount.t = "num" THEN [t |-> "number", v |-> entry.amount.v]
                ELSE [t |-> "null", v |-> 0],
     timestamp |-> entry.timestamp]

Storable(entry) == entry.amount.t \in {"num", "null"}

\* C11: after every completed mutation the stored blob is an array that
\* holds exactly the entries of the ledger in memory, field for field.
C11_StorageInSyncWithMemory ==
    Mutated
    => /\ IsLedger(transactions)
       /\ localStorage.kind = "json" /\ localStorage.doc.type = "array"
       /\ \A i \in 1..Len(transactions.items) : Storable(transactions.items[i])
       /\ SameEntries(localStorage.doc.items,
                      [i \in 1..Len(transactions.items) |-> StoredForm(transactions.items[i])])

C11_Witness ==
    /\ Mutated /\ Submitted
    /\ Len(transactions.items) = 2
    /\ Len(localStorage.doc.items) = 2
    /\ localStorage.doc.items[1].amount = [t |-> "null", v |-> 0]
    /\ localStorage.doc.items[2].amount = [t |-> "number", v |-> -40]
    /\ transactions.items[1].amount = Num(-40)
    /\ transactions.items[2].amount = Null

\* C12: one confirmed delete takes at most one entry out of the ledger.
C12_DeleteRemovesAtMostOne ==
    (Mutated /\ Deleted)
    => Len(transactions.items) >= Len(last.transactions.items) - 1

\* the step is a click on a delete button answered with Cancel
DeclinedClick == last'.op = "click" /\ ~last'.confirmed /\ last'.id # <<>>

\* C13: a delete click whose confirmation is declined leaves the ledger, the
\* blob, the list and the three figures as they were and shows no message
\* (the message box is untouched and no hide timer is set).
C13_DeclinedDeleteChangesNothing ==
    [][DeclinedClick
       => UNCHANGED <<transactions, localStorage, transactionList, balanceDisplay,
                      incomeDisplay, expenseDisplay, messageBox, timers>>]_vars

C13_Witness ==
    /\ last.op = "click" /\ ~last.confirmed /\ last.id # <<>>
    /\ IsLedger(transactions) /\ Len(transactions.items) = 2
    /\ Len(transactionList) = 2
    /\ transactions = last.transactions
    /\ localStorage = last.localStorage

\* C14: a submission whose amount parses to Infinity or -Infinity creates no
\* transaction: the ledger and the blob are as they were before the submit.
C14_InfiniteAmountRejected ==
    (Submitted /\ ParseFloat(last.amount).t = "inf")
    => /\ transactions = last.transactions
       /\ localStorage = last.localStorage

Holds(items, entry) == \E i \in 1..Len(items) : items[i] = entry

\* C15: over submits and list clicks, every entry of the ledger is still in
\* it, field for field, after the handler, unless the handler was a confirmed
\* delete of its id; an entry just created is in the ledger, after the
\* handler, as it was made.
C15_EntriesKeptAsCreated ==
    (last.op \in {"submit", "click", "delete"} /\ IsLedger(last.transactions))
    => /\ IsLedger(transactions)
       /\ \A i \in 1..Len(last.transactions.items) :
            \/ Deleted /\ last.id = last.transactions.items[i].id
            \/ Holds(transactions.items, last.transactions.items[i])
       /\ (Submitted /\ last.saved)
          => \A i \in 1..Len(last.atSave.items) :
                Holds(transactions.items, last.atSave.items[i])

\* the step ran a handler that got as far as a call of showMessage
ShowedMessage ==
    \/ last'.op = "onload" /\ last'.localStorage.kind = "garbage"
    \/ last'.op = "submit" /\ ~last'.threw
    \/ last'.op \in {"click", "delete"} /\ last'.saved /\ ~last'.threw

\* C16: within one page, a hide timer once set stays pending until it fires:
\* a step that shows a message adds its timer to the ones pending, whatever
\* their number, and shows the box; only the firing of a timer takes one
\* away, and every firing hides the box, also while the timer of a newer
\* message is still pending.
C16_HideTimersNeverCancelled ==
    [][last'.op # "reload"
       => /\ ShowedMessage => (timers' = timers + 1 /\ ~messageBox'.hidden)
          /\ ~ShowedMessage /\ last'.op # "timer" => timers' = timers
          /\ last'.op = "timer" => (timers' = timers - 1 /\ messageBox'.hidden)]_vars

\* a timer has fired and hidden the box while the timer of the message last
\* shown is pending
C16_Witness ==
    /\ last.op = "timer"
    /\ messageBox.hidden
    /\ messageBox.textContent # ""
    /\ timers >= 1

RowsOf(id) == Cardinality({j \in 1..Len(transactionList) : transactionList[j].dataId = id})

EntriesOf(id) == Cardinality({i \in 1..Len(transactions.items) : transactions.items[i].id = id})

\* C17: after a startup, an accepted submit or a confirmed delete that ran to
\* its end, the list is the placeholder alone when the ledger is empty, and
\* otherwise has no placeholder and as many rows with an id as the ledger
\* has entries with it.
C17_ListIsRebuildOfLedger ==
    Refreshed
    => /\ IsLedger(transactions)
       /\ IF Len(transactions.items) = 0
          THEN transactionList = <<Placeholder>>
          ELSE /\ Len(transactionList) = Len(transactions.items)
               /\ \A j \in 1..Len(transactionList) : transactionList[j].kind = "row"
               /\ \A i \in 1..Len(transactions.items) :
                    RowsOf(transactions.items[i].id) = EntriesOf(transactions.items[i].id)

C17_Witness ==
    /\ Refreshed /\ Deleted
    /\ Len(last.transactions.items) = 2
    /\ Len(transactions.items) = 1
    /\ Len(transactionList) = 1
    /\ transactionList[1].kind = "row"
    /\ transactionList[1].dataId = transactions.items[1].id

\* the startup found no blob under the storage key
StartedWithoutBlob == last.op = "onload" /\ last.localStorage.kind = "absent"

\* C18 (as stated): a startup that finds no blob leaves the ledger empty and
\* shows the user a message.
C18_MissingBlobNotifiesUser ==
    StartedWithoutBlob
    => /\ transactions = EmptyArray
       /\ ~messageBox.hidden
       /\ timers >= 1

\* C18 (amended): a startup that finds no blob leaves the ledger empty and
\* shows no message: the box stays hidden, no hide timer is set, and the
\* list is the placeholder.
C18_MissingBlobGivesEmptyLedgerSilently ==
    StartedWithoutBlob
    => /\ ~last.threw
       /\ transactions = EmptyArray
       /\ messageBox.hidden
       /\ timers = 0
       /\ transactionList = <<Placeholder>>

C18_Witness ==
    /\ StartedWithoutBlob
    /\ loaded
    /\ transactions = EmptyArray
    /\ localStorage = Absent
    /\ messageBox.hidden

\* C19: whenever the message box is visible a hide timer is pending; and,
\* with pending timers fired fairly, a run in which messages are shown only
\* finitely often (from some point on no step sets a timer) ends with the
\* box hidden for good.
C19_MessagesEventuallyDismissed ==
    /\ [](~messageBox.hidden => timers > 0)
    /\ <>[][timers' <= timers]_vars => <>[]messageBox.hidden

\* the last pending timer has fired and left a message that was shown hidden
C19_Witness ==
    /\ last.op = "timer"
    /\ messageBox.textContent # ""
    /\ messageBox.hidden
    /\ timers = 0
====
